---- MODULE Spec2Model ----
(***************************************************************************)
(* Release / artifact ingestion pipeline of appshare-backend.              *)
(*                                                                         *)
(* State: the PostgreSQL tables (projects, applications,                   *)
(* application_releases, artifacts) as committed rows, and for every       *)
(* request worker the position of the service call it is executing, its    *)
(* locals, the transaction it holds (uncommitted rows) and the resources   *)
(* it owns (storage read stream, temp file).                               *)
(*                                                                         *)
(* The pipeline calls (CreateReleaseWithArtifactURL, CreateFromArtifact,   *)
(* ExtractMetadataFromURL) are modelled statement group by statement       *)
(* group so that two workers interleave at every database round trip.      *)
(* The single-statement CRUD services are one action each.                 *)
(***************************************************************************)
EXTENDS Integers, Sequences, FiniteSets, TLC

\* ------------------------------------------------------------------------
\* Bounds of the model
\* ------------------------------------------------------------------------
\* number of service calls issued in one behaviour
MaxCalls == 3

\* number of records the in-memory user repository holds in one behaviour
MaxUsers == 2

\* request workers (goroutines serving requests concurrently)
Procs == {1, 2}

\* ------------------------------------------------------------------------
\* Principals, projects, environments
\* ------------------------------------------------------------------------
Users == {"u1", "u2"}

ProjectIDs == {"p1"}

EnvironmentDevelopment == "development"
EnvironmentStaging == "staging"
EnvironmentProduction == "production"

Environments == {EnvironmentDevelopment, EnvironmentStaging, EnvironmentProduction}

\* an application id no row carries (uuid of a missing application)
MissingID == 0

\* SQL NULL in a nullable column (artifacts.abi)
NULL == "NULL"

APKMimeType == "application/vnd.android.package-archive"

\* ------------------------------------------------------------------------
\* Errors.  An error value is its Unwrap chain, outermost layer first; the
\* nil error is the empty chain.
\* ------------------------------------------------------------------------
Nil == << >>

Layer(type, code, field) == [type |-> type, code |-> code, field |-> field]

AppError(code) == << Layer("AppError", code, "") >>

CodeInternal == "INTERNAL_ERROR"
CodeNotFound == "NOT_FOUND"
CodeAlreadyExists == "ALREADY_EXISTS"
CodeInvalidInput == "INVALID_INPUT"
CodeValidation == "VALIDATION_ERROR"
CodeNotProjectOwner == "NOT_PROJECT_OWNER"
CodeProjectNotFound == "PROJECT_NOT_FOUND"
CodeApplicationNotFound == "APPLICATION_NOT_FOUND"
CodePackageNameExists == "PACKAGE_NAME_EXISTS"
CodeReleaseExists == "RELEASE_EXISTS"

ErrNotFound == AppError(CodeNotFound)
ErrInvalidInput == AppError(CodeInvalidInput)
ErrNotProjectOwner == AppError(CodeNotProjectOwner)
ErrPackageNameExists == AppError(CodePackageNameExists)
ErrProjectNotFound == AppError(CodeProjectNotFound)

CodeEmailExists == "EMAIL_ALREADY_EXISTS"
CodeUsernameExists == "USERNAME_ALREADY_EXISTS"
ErrEmailAlreadyExists == AppError(CodeEmailExists)
ErrUsernameAlreadyExists == AppError(CodeUsernameExists)

\* domain.WrapError: an AppError whose Unwrap is err
WrapError(code, err) == << Layer("AppError", code, "") >> \o err

\* domain.NewValidationError: Unwrap() of a ValidationError is ErrInvalidInput
NewValidationError(field) == << Layer("ValidationError", CodeValidation, field) >> \o ErrInvalidInput

\* fmt.Errorf("...: %w", err): a plain error whose Unwrap is err
Errorf(msg, err) == << Layer("fmt", msg, "") >> \o err

\* errors raised by the pgx driver and by the storage client
PgUniqueViolation == << Layer("pgconn.PgError", "23505", "") >>
PgErrNoRows == << Layer("pgx", "ErrNoRows", "") >>
PgSerializationFailure == << Layer("pgconn.PgError", "40001", "") >>
PgConnError == << Layer("pgx", "conn", "") >>
StorageError == << Layer("s3", "GetObject", "") >>
IOError == << Layer("io", "copy", "") >>

\* errors.As(err, &target) for a target of the given Go type: the first
\* layer of the chain with that type, or none
RECURSIVE FirstOfType(_, _)
FirstOfType(err, type) ==
    IF err = Nil THEN Nil
    ELSE IF Head(err).type = type THEN << Head(err) >>
    ELSE FirstOfType(Tail(err), type)

\* errors.Is(err, target) where target is an *AppError: AppError.Is matches
\* by code on every AppError layer of the chain
ErrorsIs(err, target) ==
    \E i \in 1..Len(err) : err[i].type = "AppError" /\ err[i].code = target[1].code

GetErrorCode(err) ==
    IF FirstOfType(err, "AppError") # Nil THEN FirstOfType(err, "AppError")[1].code
    ELSE IF FirstOfType(err, "ValidationError") # Nil THEN FirstOfType(err, "ValidationError")[1].code
    ELSE CodeInternal

\* errors.As(err, &validationErr) on the returned error, and its Field
IsValidationError(err, field) ==
    /\ err # Nil
    /\ Head(err).type = "ValidationError"
    /\ Head(err).field = field

\* postgres.translateError
translateError(err) ==
    IF err = Nil THEN Nil
    ELSE IF err = PgErrNoRows THEN ErrNotFound
    ELSE err

\* ------------------------------------------------------------------------
\* Object storage and the binaries it holds
\* ------------------------------------------------------------------------
\* host of the storage's public domain (R2Storage.publicDomain)
PublicHost == "cdn"

\* a binary: archive = it opens as a package archive with a manifest;
\* hasVersionCode / hasVersionName = the manifest attribute is present
Binary(archive, pkg, hasVC, vc, hasVN, vn, sha, size) ==
    [archive |-> archive, pkg |-> pkg, hasVersionCode |-> hasVC, versionCode |-> vc,
     hasVersionName |-> hasVN, versionName |-> vn, sha256 |-> sha, size |-> size]

\* objects of the bucket, by key
Bucket ==
    [path \in {"a5.apk", "b5.apk", "junk.bin", "novc.apk"} |->
        CASE path = "a5.apk" -> Binary(TRUE, "com.a", TRUE, 5, TRUE, "1.0.5", "sha-a5", 50)
          [] path = "b5.apk" -> Binary(TRUE, "com.b", TRUE, 5, TRUE, "2.0", "sha-b5", 51)
          [] path = "junk.bin" -> Binary(FALSE, "", FALSE, 0, FALSE, "", "sha-junk", 7)
          [] path = "novc.apk" -> Binary(TRUE, "com.b", FALSE, 0, TRUE, "2.1", "sha-novc", 52)]

\* an artifact URL as url.Parse sees it
URL(parses, host, path) == [parses |-> parses, host |-> host, path |-> path]

ArtifactURLs ==
    { URL(TRUE, PublicHost, "/a5.apk"), URL(TRUE, PublicHost, "/b5.apk"),
      URL(TRUE, PublicHost, "/junk.bin"), URL(TRUE, PublicHost, "/novc.apk"),
      URL(TRUE, "evil.example", "/a5.apk"), URL(FALSE, "", "") }

\* strings.TrimPrefix(parsed.Path, "/")
TrimSlash(path) ==
    CASE path = "/a5.apk" -> "a5.apk"
      [] path = "/b5.apk" -> "b5.apk"
      [] path = "/junk.bin" -> "junk.bin"
      [] path = "/novc.apk" -> "novc.apk"
      [] OTHER -> path

\* whether a URL names an object of this system's storage
BelongsToStorage(url) == url.parses /\ url.host = PublicHost

\* ReleaseService.extractStoragePath: (path, isOurs)
extractStoragePath(rawURL) ==
    IF ~rawURL.parses THEN [path |-> "", isOurs |-> FALSE]
    ELSE [path |-> TrimSlash(rawURL.path), isOurs |-> TRUE]

\* Storage.ExtractStoragePath of the storage implementation: (path, isOurs)
ExtractStoragePath(rawURL) ==
    IF BelongsToStorage(rawURL) THEN [path |-> TrimSlash(rawURL.path), isOurs |-> TRUE]
    ELSE [path |-> "", isOurs |-> FALSE]

\* ------------------------------------------------------------------------
\* State
\* ------------------------------------------------------------------------
VARIABLES
    projects,       \* projects table: id -> row
    applications,   \* applications table: committed rows
    releases,       \* application_releases table: committed rows
    artifacts,      \* artifacts table: committed rows
    nextID,         \* next generated row id (gen_random_uuid)
    call,           \* per worker: the service call in progress
    calls,          \* number of service calls issued so far
    users,          \* memory.UserRepository.users: id -> record
    userOp,         \* the last call on the user repository and its result
    userLog         \* ids returned by Create, ids whose SoftDelete succeeded

vars == << projects, applications, releases, artifacts, nextID, call, calls,
           users, userOp, userLog >>

\* the in-memory user repository and the record of its calls
userVars == << users, userOp, userLog >>

\* the persisted rows
db == << projects, applications, releases, artifacts >>

ApplicationRow(id, title, pkg, projectID) ==
    [id |-> id, title |-> title, packageName |-> pkg, description |-> "",
     projectID |-> projectID, deleted |-> FALSE]

ReleaseRow(id, in) ==
    [id |-> id, title |-> in.title, versionCode |-> in.versionCode,
     versionName |-> in.versionName, releaseNote |-> in.releaseNote,
     environment |-> in.environment, applicationID |-> in.applicationID,
     deleted |-> FALSE]

ArtifactRow(id, in) ==
    [id |-> id, fileURL |-> in.fileURL, sha256 |-> in.sha256, fileSize |-> in.fileSize,
     fileType |-> in.fileType, abi |-> in.abi, releaseID |-> in.releaseID,
     deleted |-> FALSE]

\* domain.CreateReleaseInput
CreateReleaseInput(appID, title, vc, vn, note, env) ==
    [applicationID |-> appID, title |-> title, versionCode |-> vc, versionName |-> vn,
     releaseNote |-> note, environment |-> env]

\* domain.CreateArtifactInput; stringToPgtype(derefString(ABI)) stores a
\* nil or empty ABI as NULL
CreateArtifactInput(releaseID, url, sha, size, type, abi) ==
    [releaseID |-> releaseID, fileURL |-> url, sha256 |-> sha, fileSize |-> size,
     fileType |-> type, abi |-> IF abi = "" THEN NULL ELSE abi]

\* a worker with no call in progress
IdleCall ==
    [pc |-> "idle", op |-> "none", user |-> "", appID |-> MissingID, projectID |-> "",
     url |-> URL(FALSE, "", ""), env |-> "", ownerAtCall |-> "",
     appPackage |-> "", storagePath |-> "",
     reader |-> "none", tmpFile |-> "none", downloaded |-> FALSE,
     sha256 |-> "", fileSize |-> 0, versionCode |-> 0, versionName |-> "", packageName |-> "",
     tx |-> "none", txApplications |-> {}, txReleases |-> {}, txArtifacts |-> {},
     commits |-> 0, rollbacks |-> 0, fn |-> "none", fnErr |-> Nil,
     newAppID |-> MissingID, releaseID |-> MissingID,
     target |-> MissingID, abi |-> "", conflict |-> FALSE, fromEnv |-> "",
     newOwner |-> "", snapVersion |-> 0, txProjects |-> {},
     uniqChecked |-> FALSE, pkgTaken |-> FALSE,
     ctx |-> "live", cancelledAt |-> "",
     err |-> Nil, ret |-> MissingID]

\* a nil *domain.User
NoUser == {}

\* no call on the user repository yet
IdleUserOp == [op |-> "none", id |-> MissingID, email |-> "", username |-> "", err |-> Nil, ret |-> NoUser]

Init ==
    /\ projects = [id \in ProjectIDs |-> [ownerID |-> "u1", deleted |-> FALSE, version |-> 0]]
    /\ applications = { ApplicationRow(1, <<"app">>, "com.a", "p1") }
    /\ releases = {}
    /\ artifacts = {}
    /\ nextID = 2
    /\ call = [p \in Procs |-> IdleCall]
    /\ calls = 0
    /\ users = << >>
    /\ userOp = IdleUserOp
    /\ userLog = [created |-> {}, softDeleted |-> {}]

\* ------------------------------------------------------------------------
\* Queries (sqlc) and repositories
\* ------------------------------------------------------------------------
\* GetApplicationByID: WHERE id = $1 AND deleted_at IS NULL
GetApplicationByID(id) == { a \in applications : a.id = id /\ ~a.deleted }

\* GetProjectByID: WHERE id = $1 AND deleted_at IS NULL
GetProjectByID(id) == { [id |-> i, ownerID |-> projects[i].ownerID, version |-> projects[i].version] : i \in { j \in DOMAIN projects : j = id /\ ~projects[j].deleted } }

\* GetApplicationReleaseByID: WHERE id = $1 AND deleted_at IS NULL
GetApplicationReleaseByID(id) == { r \in releases : r.id = id /\ ~r.deleted }

\* GetApplicationByPackageName: WHERE package_name = $1 AND deleted_at IS NULL
GetApplicationByPackageName(pkg) == { a \in applications : a.packageName = pkg /\ ~a.deleted }

\* the one row of a :one query that found a row
TheRow(rows) == CHOOSE r \in rows : TRUE

\* CONSTRAINT unique_application_release UNIQUE (application_id, version_code, environment)
SameReleaseKey(r1, r2) ==
    /\ r1.applicationID = r2.applicationID
    /\ r1.versionCode = r2.versionCode
    /\ r1.environment = r2.environment

\* CONSTRAINT unique_artifact UNIQUE (release_id, abi); NULLs are distinct
SameArtifactKey(a1, a2) ==
    /\ a1.releaseID = a2.releaseID
    /\ a1.abi = a2.abi
    /\ a1.abi # NULL

\* rows written by the open transactions of the other workers
OtherTxReleases(p) == UNION { call[q].txReleases : q \in Procs \ {p} }
OtherTxApplications(p) == UNION { call[q].txApplications : q \in Procs \ {p} }
AllTxReleases == UNION { call[q].txReleases : q \in Procs }

\* an INSERT or UPDATE waits while another open transaction holds an
\* uncommitted row with the same unique key
ReleaseKeyLocked(p, row) == \E r \in OtherTxReleases(p) : SameReleaseKey(r, row)
PackageNameLocked(p, pkg) == \E a \in OtherTxApplications(p) : a.packageName = pkg

\* CreateApplicationRelease: error of the INSERT given the rows it can see
CreateApplicationRelease_NoConstraint(visible, row) == Nil

CreateApplicationRelease(visible, row) ==
    IF \E r \in visible : SameReleaseKey(r, row) THEN PgUniqueViolation ELSE Nil

\* CreateArtifact: error of the INSERT given the rows it can see
CreateArtifact(visible, row) ==
    IF \E a \in visible : SameArtifactKey(a, row) THEN PgUniqueViolation ELSE Nil

\* CreateApplication: error of the INSERT (package_name UNIQUE)
CreateApplication(visible, row) ==
    IF \E a \in visible : a.packageName = row.packageName THEN PgUniqueViolation ELSE Nil

\* ReleaseRepository.CreateTx runs the INSERT on the transaction's queries:
\* the row joins the transaction's uncommitted rows, not the table
ReleaseCreateTx_OnPool(table, pending, row) ==
    [table |-> table \cup {row}, pending |-> pending]

ReleaseCreateTx(table, pending, row) ==
    [table |-> table, pending |-> pending \cup {row}]

\* ApplicationRepository.CreateTx runs the INSERT on the transaction's
\* queries: the row joins the transaction's uncommitted rows, not the table
ApplicationCreateTx_OnPool(table, pending, row) ==
    [table |-> table \cup {row}, pending |-> pending]

ApplicationCreateTx(table, pending, row) ==
    [table |-> table, pending |-> pending \cup {row}]

\* ApplicationRepository.PackageNameExists
PackageNameExists(pkg) == GetApplicationByPackageName(pkg) # {}

\* ------------------------------------------------------------------------
\* Ownership checks of the services
\* ------------------------------------------------------------------------
\* application -> project -> owner, as the services walk it; denied is the
\* error the service returns to a non-owner
VerifyApplicationOwner(appID, userID, denied) ==
    IF GetApplicationByID(appID) = {} THEN translateError(PgErrNoRows)
    ELSE IF GetProjectByID(TheRow(GetApplicationByID(appID)).projectID) = {} THEN translateError(PgErrNoRows)
    ELSE IF TheRow(GetProjectByID(TheRow(GetApplicationByID(appID)).projectID)).ownerID # userID THEN denied
    ELSE Nil

\* CreateReleaseWithArtifactURL, step 1
CRWA_VerifyOwnership_HidesExistence(appID, userID) ==
    VerifyApplicationOwner(appID, userID, ErrNotFound)

CRWA_VerifyOwnership(appID, userID) ==
    VerifyApplicationOwner(appID, userID, WrapError(CodeNotProjectOwner, ErrNotProjectOwner))

\* CreateFromArtifact and ApplicationService.Create: project -> owner
VerifyProjectOwner(projectID, userID) ==
    IF GetProjectByID(projectID) = {} THEN translateError(PgErrNoRows)
    ELSE IF TheRow(GetProjectByID(projectID)).ownerID # userID THEN ErrNotProjectOwner
    ELSE Nil

\* the owner at the end of an application's ownership chain, "" if the
\* chain is broken
ChainOwnerOfApplication(appID) ==
    IF \E a \in applications : a.id = appID /\ ~a.deleted /\ a.projectID \in DOMAIN projects /\ ~projects[a.projectID].deleted
    THEN projects[(CHOOSE a \in applications : a.id = appID).projectID].ownerID
    ELSE ""

ChainOwnerOfProject(projectID) ==
    IF projectID \in DOMAIN projects /\ ~projects[projectID].deleted THEN projects[projectID].ownerID ELSE ""

ChainOwnerOfRelease(releaseID) ==
    IF \E r \in releases : r.id = releaseID /\ ~r.deleted
    THEN ChainOwnerOfApplication((CHOOSE r \in releases : r.id = releaseID).applicationID)
    ELSE ""

\* ------------------------------------------------------------------------
\* Calls, returns and deferred cleanup
\* ------------------------------------------------------------------------
\* the request's context.Context has not been cancelled; storage.Download,
\* the body read of io.Copy, BeginTx, the statements of the transaction,
\* Commit and Rollback all take ctx and fail once it is cancelled
CtxLive_Ignored(c) == TRUE

CtxLive(c) == c.ctx = "live"

\* the caller cancels the context of a call in progress
Ctx_Cancel(p) ==
    LET c == call[p] IN
    /\ c.pc \notin {"idle", "done", "panicked"}
    /\ c.ctx = "live"
    /\ call' = [call EXCEPT ![p] = [c EXCEPT !.ctx = "cancelled", !.cancelledAt = c.pc]]
    /\ UNCHANGED << projects, applications, releases, artifacts, nextID, calls >>

\* a worker can take a new request once its previous call has returned
\* or its panic has unwound
CanStart(p) == call[p].pc \in {"idle", "done", "panicked"} /\ calls < MaxCalls

\* the deferred reader.Close(), tmpFile.Close() and os.Remove(tmpFile.Name())
\* run when the function returns and when a panic unwinds it
RunDefers_ReaderOnly(c) ==
    [c EXCEPT !.reader = IF c.reader = "open" THEN "closed" ELSE c.reader]

RunDefers(c) ==
    [c EXCEPT !.reader = IF c.reader = "open" THEN "closed" ELSE c.reader,
              !.tmpFile = IF c.tmpFile = "exists" THEN "removed" ELSE c.tmpFile]

\* return (ret, err) from the service call
Return(c, ret, err) == [RunDefers(c) EXCEPT !.pc = "done", !.ret = ret, !.err = err]

\* a panic leaves the service call
Panic(c) == [RunDefers(c) EXCEPT !.pc = "panicked"]

\* ------------------------------------------------------------------------
\* ReleaseService.CreateReleaseWithArtifactURL
\* ------------------------------------------------------------------------
\* step 1: load application and project, verify ownership
CRWA_Call(p, userID, appID, artifactURL, environment) ==
    /\ CanStart(p)
    /\   LET c == [IdleCall EXCEPT !.op = "CreateReleaseWithArtifactURL", !.user = userID,
                                   !.appID = appID, !.url = artifactURL, !.env = environment,
                                   !.ownerAtCall = ChainOwnerOfApplication(appID)]
             err == CRWA_VerifyOwnership(appID, userID)
         IN  call' = [call EXCEPT ![p] =
                 IF err # Nil THEN Return(c, MissingID, err)
                 ELSE [c EXCEPT !.pc = "download",
                                !.appPackage = TheRow(GetApplicationByID(appID)).packageName]]
    /\ calls' = calls + 1
    /\ UNCHANGED << projects, applications, releases, artifacts, nextID >>

\* step 2: resolve the URL, open the storage stream, copy it through the
\* hasher into a temp file.  Faults: storage.Download fails (object missing,
\* storage unreachable), os.CreateTemp fails, io.Copy fails
CRWA_Download_InsideTx(p) ==
    LET c == call[p]
        sp == extractStoragePath(c.url)
    IN
    /\ c.pc = "download" /\ c.op = "CreateReleaseWithArtifactURL"
    /\ \/ /\ ~sp.isOurs
          /\ call' = [call EXCEPT ![p] = Return(c, MissingID, NewValidationError("artifact_url"))]
       \/ /\ sp.isOurs
          /\ \E fault \in {"download", "tempfile", "copy"} :
               call' = [call EXCEPT ![p] =
                 CASE fault = "download" ->
                        Return([c EXCEPT !.downloaded = TRUE, !.storagePath = sp.path], MissingID,
                               Errorf("failed to download artifact", StorageError))
                   [] fault = "tempfile" ->
                        Return([c EXCEPT !.downloaded = TRUE, !.storagePath = sp.path, !.reader = "open"],
                               MissingID, Errorf("failed to create temp file", IOError))
                   [] fault = "copy" ->
                        Return([c EXCEPT !.downloaded = TRUE, !.storagePath = sp.path, !.reader = "open",
                                         !.tmpFile = "exists"],
                               MissingID, Errorf("failed to save artifact", IOError))]
       \/ /\ sp.isOurs
          /\ sp.path \in DOMAIN Bucket
          /\ CtxLive(c)
          /\ call' = [call EXCEPT ![p] =
                 [c EXCEPT !.pc = "parse", !.tx = "open", !.downloaded = TRUE, !.storagePath = sp.path,
                           !.reader = "open", !.tmpFile = "exists",
                           !.sha256 = Bucket[sp.path].sha256, !.fileSize = Bucket[sp.path].size]]
    /\ UNCHANGED << projects, applications, releases, artifacts, nextID, calls >>

CRWA_Download(p) ==
    LET c == call[p]
        sp == extractStoragePath(c.url)
    IN
    /\ c.pc = "download" /\ c.op = "CreateReleaseWithArtifactURL"
    /\ \/ /\ ~sp.isOurs
          /\ call' = [call EXCEPT ![p] = Return(c, MissingID, NewValidationError("artifact_url"))]
       \/ /\ sp.isOurs
          /\ \E fault \in {"download", "tempfile", "copy"} :
               call' = [call EXCEPT ![p] =
                 CASE fault = "download" ->
                        Return([c EXCEPT !.downloaded = TRUE, !.storagePath = sp.path], MissingID,
                               Errorf("failed to download artifact", StorageError))
                   [] fault = "tempfile" ->
                        Return([c EXCEPT !.downloaded = TRUE, !.storagePath = sp.path, !.reader = "open"],
                               MissingID, Errorf("failed to create temp file", IOError))
                   [] fault = "copy" ->
                        Return([c EXCEPT !.downloaded = TRUE, !.storagePath = sp.path, !.reader = "open",
                                         !.tmpFile = "exists"],
                               MissingID, Errorf("failed to save artifact", IOError))]
       \/ /\ sp.isOurs
          /\ sp.path \in DOMAIN Bucket
          /\ CtxLive(c)
          /\ call' = [call EXCEPT ![p] =
                 [c EXCEPT !.pc = "parse", !.downloaded = TRUE, !.storagePath = sp.path,
                           !.reader = "open", !.tmpFile = "exists",
                           !.sha256 = Bucket[sp.path].sha256, !.fileSize = Bucket[sp.path].size]]
    /\ UNCHANGED << projects, applications, releases, artifacts, nextID, calls >>

\* step 3: open the temp file as a package archive, read the manifest,
\* compare the package name
CRWA_Parse(p) ==
    LET c == call[p]
        bin == Bucket[c.storagePath]
    IN
    /\ c.pc = "parse" /\ c.op = "CreateReleaseWithArtifactURL"
    /\ call' = [call EXCEPT ![p] =
         IF ~bin.archive THEN Return(c, MissingID, NewValidationError("artifact_url"))
         ELSE IF ~bin.hasVersionCode \/ ~bin.hasVersionName THEN Panic(c)
         ELSE IF c.appPackage # bin.pkg THEN Return(c, MissingID, NewValidationError("artifact_url"))
         ELSE [c EXCEPT !.pc = "begin", !.versionCode = bin.versionCode,
                        !.versionName = bin.versionName, !.packageName = bin.pkg]]
    /\ UNCHANGED << projects, applications, releases, artifacts, nextID, calls >>

\* ------------------------------------------------------------------------
\* TxManager.WithTx / WithTxOptions
\* ------------------------------------------------------------------------
\* the first statement of the function passed to WithTx
FirstTxStep(op) ==
    IF op = "CreateFromArtifact" THEN "tx_app"
    ELSE IF op = "TransferOwnership" THEN "tx_get_project"
    ELSE "tx_release"

\* BeginTx
WithTx_Begin(p) ==
    LET c == call[p] IN
    /\ c.pc = "begin"
    /\ \/ /\ CtxLive(c)
          /\ call' = [call EXCEPT ![p] = [c EXCEPT !.pc = FirstTxStep(c.op), !.tx = "open"]]
       \/ /\ call' = [call EXCEPT ![p] = Return(c, MissingID, Errorf("begin transaction", PgConnError))]
    /\ UNCHANGED << projects, applications, releases, artifacts, nextID, calls >>

\* what WithTxOptions does once fn has returned nil ("nil"), returned an
\* error ("err") or panicked ("panic")
WithTxAfterFn_NoRecover(outcome) ==
    CASE outcome = "nil" -> "commit"
      [] outcome = "err" -> "rollback"
      [] outcome = "panic" -> "panicked"

WithTxAfterFn(outcome) ==
    CASE outcome = "nil" -> "commit"
      [] outcome = "err" -> "rollback"
      [] outcome = "panic" -> "recover"

\* fn has ended in the given way
FnEnds(c, outcome, err) ==
    IF WithTxAfterFn(outcome) = "panicked"
    THEN Panic([c EXCEPT !.fn = outcome, !.fnErr = err])
    ELSE [c EXCEPT !.pc = WithTxAfterFn(outcome), !.fn = outcome, !.fnErr = err]

\* the error WithTxOptions returns when the rollback itself failed
RollbackFailedError_Flattened(rbErr, err) == << Layer("fmt", "rollback failed", "") >>

RollbackFailedError(rbErr, err) == Errorf("rollback failed", err)

\* the value the service returns after a successful WithTx
ResultOf(c) == IF c.op = "CreateFromArtifact" THEN c.newAppID ELSE c.releaseID

\* discard the uncommitted rows of the transaction
Discard(c, status) ==
    [c EXCEPT !.tx = status, !.txApplications = {}, !.txReleases = {}, !.txArtifacts = {},
              !.txProjects = {}]

\* the projects table once the transaction's uncommitted owner updates are
\* committed
ApplyProjectUpdates(table, updates) ==
    [i \in DOMAIN table |->
        IF \E u \in updates : u.id = i
        THEN [table[i] EXCEPT !.ownerID = (CHOOSE u \in updates : u.id = i).ownerID,
                              !.version = table[i].version + 1]
        ELSE table[i]]

\* tx.Commit after fn returned nil; the service returns right after WithTx
WithTx_Commit(p) ==
    LET c == call[p] IN
    /\ c.pc = "commit"
    /\ \/ /\ CtxLive(c)
          /\ applications' = applications \cup c.txApplications
          /\ releases' = releases \cup c.txReleases
          /\ artifacts' = artifacts \cup c.txArtifacts
          /\ projects' = ApplyProjectUpdates(projects, c.txProjects)
          /\ call' = [call EXCEPT ![p] =
                 Return([Discard(c, "committed") EXCEPT !.commits = c.commits + 1], ResultOf(c), Nil)]
       \/ /\ call' = [call EXCEPT ![p] =
                 Return([Discard(c, "broken") EXCEPT !.commits = c.commits + 1], MissingID,
                        Errorf("commit transaction", PgConnError))]
          /\ UNCHANGED << projects, applications, releases, artifacts >>
    /\ UNCHANGED << nextID, calls >>

\* tx.Rollback after fn returned an error
WithTx_Rollback(p) ==
    LET c == call[p] IN
    /\ c.pc = "rollback"
    /\ \/ /\ CtxLive(c)
          /\ call' = [call EXCEPT ![p] =
                 Return([Discard(c, "rolledback") EXCEPT !.rollbacks = c.rollbacks + 1], MissingID, c.fnErr)]
       \/ /\ call' = [call EXCEPT ![p] =
                 Return([Discard(c, "broken") EXCEPT !.rollbacks = c.rollbacks + 1], MissingID,
                        RollbackFailedError(PgConnError, c.fnErr))]
    /\ UNCHANGED << projects, applications, releases, artifacts, nextID, calls >>

\* the deferred recover(): roll back, ignore the rollback's result, re-panic
WithTx_Recover(p) ==
    LET c == call[p] IN
    /\ c.pc = "recover"
    /\ \E status \in (IF CtxLive(c) THEN {"rolledback", "broken"} ELSE {"broken"}) :
         call' = [call EXCEPT ![p] = Panic([Discard(c, status) EXCEPT !.rollbacks = c.rollbacks + 1])]
    /\ UNCHANGED << projects, applications, releases, artifacts, nextID, calls >>

\* ------------------------------------------------------------------------
\* The functions run inside the transaction
\* ------------------------------------------------------------------------
\* the release each service creates in its transaction
TxReleaseInput_AlwaysInitial(c) ==
    CreateReleaseInput(IF c.op = "CreateFromArtifact" THEN c.newAppID ELSE c.appID,
                       << "Initial Release", c.versionName, c.versionCode >>,
                       c.versionCode, c.versionName, "Initial release from creation",
                       EnvironmentProduction)

TxReleaseInput(c) ==
    IF c.op = "CreateFromArtifact"
    THEN CreateReleaseInput(c.newAppID, << "Initial Release", c.versionName, c.versionCode >>,
                            c.versionCode, c.versionName, "Initial release from creation",
                            EnvironmentProduction)
    ELSE CreateReleaseInput(c.appID, << "Release", c.versionName, c.versionCode >>,
                            c.versionCode, c.versionName, "note", c.env)

\* releaseRepo.CreateTx inside fn
TxCreateRelease(p) ==
    LET c == call[p]
        row == ReleaseRow(nextID, TxReleaseInput(c))
        err == translateError(CreateApplicationRelease(releases \cup c.txReleases, row))
        res == ReleaseCreateTx(releases, c.txReleases, row)
    IN
    /\ c.pc = "tx_release"
    /\ ~ReleaseKeyLocked(p, row)
    /\ \/ /\ err # Nil
          /\ call' = [call EXCEPT ![p] = FnEnds([c EXCEPT !.conflict = TRUE], "err", err)]
          /\ UNCHANGED << releases, nextID >>
       \/ /\ call' = [call EXCEPT ![p] = FnEnds(c, "err", translateError(PgConnError))]
          /\ UNCHANGED << releases, nextID >>
       \/ /\ err = Nil
          /\ CtxLive(c)
          /\ releases' = res.table
          /\ call' = [call EXCEPT ![p] = [c EXCEPT !.pc = "tx_artifact", !.txReleases = res.pending,
                                                   !.releaseID = row.id]]
          /\ nextID' = nextID + 1
    /\ UNCHANGED << projects, applications, artifacts, calls >>

\* artifactRepo.CreateTx inside fn, the last statement of both functions
TxCreateArtifact(p) ==
    LET c == call[p]
        row == ArtifactRow(nextID, CreateArtifactInput(c.releaseID, c.url, c.sha256, c.fileSize,
                                                        APKMimeType, ""))
        err == translateError(CreateArtifact(artifacts \cup c.txArtifacts, row))
    IN
    /\ c.pc = "tx_artifact"
    /\ \/ /\ \E e \in ({err} \ {Nil}) \cup {translateError(PgConnError)} :
                call' = [call EXCEPT ![p] = FnEnds(c, "err", e)]
          /\ UNCHANGED nextID
       \/ /\ call' = [call EXCEPT ![p] = FnEnds(c, "panic", Nil)]
          /\ UNCHANGED nextID
       \/ /\ err = Nil
          /\ CtxLive(c)
          /\ call' = [call EXCEPT ![p] = FnEnds([c EXCEPT !.txArtifacts = c.txArtifacts \cup {row}], "nil", Nil)]
          /\ nextID' = nextID + 1
    /\ UNCHANGED << projects, applications, releases, artifacts, calls >>

\* ------------------------------------------------------------------------
\* APKService.ExtractMetadataFromURL, alone and as step 2 of
\* ApplicationService.CreateFromArtifact
\* ------------------------------------------------------------------------
UsesAPKService(c) == c.op \in {"ExtractMetadataFromURL", "CreateFromArtifact"}

ExtractMetadataFromURL_Call(p, artifactURL) ==
    /\ CanStart(p)
    /\   call' = [call EXCEPT ![p] =
             [IdleCall EXCEPT !.op = "ExtractMetadataFromURL", !.url = artifactURL, !.pc = "download"]]
    /\ calls' = calls + 1
    /\ UNCHANGED << projects, applications, releases, artifacts, nextID >>

\* resolve the URL with the storage, download, hash into a temp file
APK_Download(p) ==
    LET c == call[p]
        sp == ExtractStoragePath(c.url)
    IN
    /\ c.pc = "download" /\ UsesAPKService(c)
    /\ \/ /\ ~sp.isOurs
          /\ call' = [call EXCEPT ![p] = Return(c, MissingID, NewValidationError("artifact_url"))]
       \/ /\ sp.isOurs
          /\ \E fault \in {"download", "tempfile", "copy"} :
               call' = [call EXCEPT ![p] =
                 CASE fault = "download" ->
                        Return([c EXCEPT !.downloaded = TRUE, !.storagePath = sp.path], MissingID,
                               Errorf("failed to download artifact", StorageError))
                   [] fault = "tempfile" ->
                        Return([c EXCEPT !.downloaded = TRUE, !.storagePath = sp.path, !.reader = "open"],
                               MissingID, Errorf("failed to create temp file", IOError))
                   [] fault = "copy" ->
                        Return([c EXCEPT !.downloaded = TRUE, !.storagePath = sp.path, !.reader = "open",
                                         !.tmpFile = "exists"],
                               MissingID, Errorf("failed to save artifact to temp file", IOError))]
       \/ /\ sp.isOurs
          /\ sp.path \in DOMAIN Bucket
          /\ CtxLive(c)
          /\ call' = [call EXCEPT ![p] =
                 [c EXCEPT !.pc = "parse", !.downloaded = TRUE, !.storagePath = sp.path,
                           !.reader = "open", !.tmpFile = "exists",
                           !.sha256 = Bucket[sp.path].sha256, !.fileSize = Bucket[sp.path].size]]
    /\ UNCHANGED << projects, applications, releases, artifacts, nextID, calls >>

\* open the archive and read the manifest; ExtractMetadataFromURL returns the
\* metadata, CreateFromArtifact goes on to the package-name check
APK_Parse_RunCounter(p) ==
    LET c == call[p]
        bin == Bucket[c.storagePath]
        m == [c EXCEPT !.versionCode = bin.versionCode + calls, !.versionName = bin.versionName,
                       !.packageName = bin.pkg]
    IN
    /\ c.pc = "parse" /\ UsesAPKService(c)
    /\ call' = [call EXCEPT ![p] =
         IF ~bin.archive THEN Return(c, MissingID, Errorf("failed to open APK file", IOError))
         ELSE IF ~bin.hasVersionCode \/ ~bin.hasVersionName THEN Panic(c)
         ELSE IF c.op = "ExtractMetadataFromURL" THEN Return(m, MissingID, Nil)
         ELSE [RunDefers(m) EXCEPT !.pc = "check_package"]]
    /\ UNCHANGED << projects, applications, releases, artifacts, nextID, calls >>

APK_Parse(p) ==
    LET c == call[p]
        bin == Bucket[c.storagePath]
        m == [c EXCEPT !.versionCode = bin.versionCode, !.versionName = bin.versionName,
                       !.packageName = bin.pkg]
    IN
    /\ c.pc = "parse" /\ UsesAPKService(c)
    /\ call' = [call EXCEPT ![p] =
         IF ~bin.archive THEN Return(c, MissingID, Errorf("failed to open APK file", IOError))
         ELSE IF ~bin.hasVersionCode \/ ~bin.hasVersionName THEN Panic(c)
         ELSE IF c.op = "ExtractMetadataFromURL" THEN Return(m, MissingID, Nil)
         ELSE [RunDefers(m) EXCEPT !.pc = "check_package"]]
    /\ UNCHANGED << projects, applications, releases, artifacts, nextID, calls >>

\* ------------------------------------------------------------------------
\* ApplicationService.CreateFromArtifact
\* ------------------------------------------------------------------------
\* load the project, verify ownership
CFA_Call_NoOwnerCheck(p, userID, projectID, artifactURL) ==
    /\ CanStart(p)
    /\   LET c == [IdleCall EXCEPT !.op = "CreateFromArtifact", !.user = userID,
                                   !.projectID = projectID, !.url = artifactURL,
                                   !.ownerAtCall = ChainOwnerOfProject(projectID)]
         IN  call' = [call EXCEPT ![p] = [c EXCEPT !.pc = "download"]]
    /\ calls' = calls + 1
    /\ UNCHANGED << projects, applications, releases, artifacts, nextID >>

CFA_Call(p, userID, projectID, artifactURL) ==
    /\ CanStart(p)
    /\   LET c == [IdleCall EXCEPT !.op = "CreateFromArtifact", !.user = userID,
                                   !.projectID = projectID, !.url = artifactURL,
                                   !.ownerAtCall = ChainOwnerOfProject(projectID)]
             err == VerifyProjectOwner(projectID, userID)
         IN  call' = [call EXCEPT ![p] =
                 IF err # Nil THEN Return(c, MissingID, err)
                 ELSE [c EXCEPT !.pc = "download"]]
    /\ calls' = calls + 1
    /\ UNCHANGED << projects, applications, releases, artifacts, nextID >>

\* check that the parsed package name is not taken
CFA_CheckPackage(p) ==
    LET c == call[p] IN
    /\ c.pc = "check_package"
    /\ call' = [call EXCEPT ![p] =
         IF PackageNameExists(c.packageName)
         THEN Return([c EXCEPT !.uniqChecked = TRUE, !.pkgTaken = TRUE], MissingID, ErrPackageNameExists)
         ELSE [c EXCEPT !.pc = "begin", !.uniqChecked = TRUE]]
    /\ UNCHANGED << projects, applications, releases, artifacts, nextID, calls >>

\* appRepo.CreateTx inside fn
CFA_TxCreateApplication(p) ==
    LET c == call[p]
        row == ApplicationRow(nextID, << "app" >>, c.packageName, c.projectID)
        err == translateError(CreateApplication(applications \cup c.txApplications, row))
        res == ApplicationCreateTx(applications, c.txApplications, row)
    IN
    /\ c.pc = "tx_app"
    /\ ~PackageNameLocked(p, c.packageName)
    /\ \/ /\ err # Nil
          /\ call' = [call EXCEPT ![p] = FnEnds([c EXCEPT !.conflict = TRUE], "err", err)]
          /\ UNCHANGED << applications, nextID >>
       \/ /\ err = Nil
          /\ CtxLive(c)
          /\ applications' = res.table
          /\ call' = [call EXCEPT ![p] = [c EXCEPT !.pc = "tx_release", !.newAppID = row.id,
                                                   !.txApplications = res.pending]]
          /\ nextID' = nextID + 1
    /\ UNCHANGED << projects, releases, artifacts, calls >>

\* ------------------------------------------------------------------------
\* Single-statement queries on committed rows: (err, table after)
\* ------------------------------------------------------------------------
\* table with the row of the given id replaced
Replace(table, id, row) == { r \in table : r.id # id } \cup {row}

\* position of an environment in the usual promotion order
EnvironmentRank(env) ==
    CASE env = EnvironmentDevelopment -> 1
      [] env = EnvironmentStaging -> 2
      [] env = EnvironmentProduction -> 3
      [] OTHER -> 0

\* PromoteRelease: UPDATE ... SET environment = $2 WHERE id = $1 AND
\* deleted_at IS NULL, under unique_application_release
PromoteRelease_AsCopy(table, id, env) ==
    LET rows == { r \in table : r.id = id /\ ~r.deleted } IN
    IF rows = {} THEN [err |-> PgErrNoRows, table |-> table, id |-> MissingID]
    ELSE IF \E r \in table : r.id # id /\ SameReleaseKey(r, [TheRow(rows) EXCEPT !.environment = env])
    THEN [err |-> PgUniqueViolation, table |-> table, id |-> MissingID]
    ELSE [err |-> Nil, table |-> table \cup {[TheRow(rows) EXCEPT !.environment = env]},
          id |-> id]

PromoteRelease_ForwardOnly(table, id, env) ==
    LET rows == { r \in table : r.id = id /\ ~r.deleted } IN
    IF rows = {} THEN [err |-> PgErrNoRows, table |-> table, id |-> MissingID]
    ELSE IF EnvironmentRank(env) < EnvironmentRank(TheRow(rows).environment)
    THEN [err |-> NewValidationError("environment"), table |-> table, id |-> MissingID]
    ELSE IF \E r \in table : r.id # id /\ SameReleaseKey(r, [TheRow(rows) EXCEPT !.environment = env])
    THEN [err |-> PgUniqueViolation, table |-> table, id |-> MissingID]
    ELSE [err |-> Nil, table |-> Replace(table, id, [TheRow(rows) EXCEPT !.environment = env]),
          id |-> id]

PromoteRelease_NoConstraint(table, id, env) ==
    LET rows == { r \in table : r.id = id /\ ~r.deleted } IN
    IF rows = {} THEN [err |-> PgErrNoRows, table |-> table, id |-> MissingID]
    ELSE [err |-> Nil, table |-> Replace(table, id, [TheRow(rows) EXCEPT !.environment = env]),
          id |-> id]

PromoteRelease(table, id, env) ==
    LET rows == { r \in table : r.id = id /\ ~r.deleted } IN
    IF rows = {} THEN [err |-> PgErrNoRows, table |-> table, id |-> MissingID]
    ELSE IF \E r \in table : r.id # id /\ SameReleaseKey(r, [TheRow(rows) EXCEPT !.environment = env])
    THEN [err |-> PgUniqueViolation, table |-> table, id |-> MissingID]
    ELSE [err |-> Nil, table |-> Replace(table, id, [TheRow(rows) EXCEPT !.environment = env]),
          id |-> id]

\* UpdateRelease: title and release_note
UpdateRelease(table, id, title, note) ==
    LET rows == { r \in table : r.id = id /\ ~r.deleted } IN
    IF rows = {} THEN [err |-> PgErrNoRows, table |-> table, id |-> MissingID]
    ELSE [err |-> Nil, id |-> id,
          table |-> Replace(table, id, [TheRow(rows) EXCEPT !.title = title, !.releaseNote = note])]

\* UpdateApplication: title and description
UpdateApplication(table, id, title, description) ==
    LET rows == { r \in table : r.id = id /\ ~r.deleted } IN
    IF rows = {} THEN [err |-> PgErrNoRows, table |-> table, id |-> MissingID]
    ELSE [err |-> Nil, id |-> id,
          table |-> Replace(table, id, [TheRow(rows) EXCEPT !.title = title, !.description = description])]

\* SoftDeleteApplicationRelease, SoftDeleteApplication: SET deleted_at
SoftDelete(table, id) ==
    LET rows == { r \in table : r.id = id /\ ~r.deleted } IN
    IF rows = {} THEN [err |-> PgErrNoRows, table |-> table, id |-> MissingID]
    ELSE [err |-> Nil, id |-> id, table |-> Replace(table, id, [TheRow(rows) EXCEPT !.deleted = TRUE])]

\* an INSERT outside a transaction: (err, table after)
Insert(table, row, err) ==
    IF err # Nil THEN [err |-> err, table |-> table, id |-> MissingID]
    ELSE [err |-> Nil, table |-> table \cup {row}, id |-> row.id]

\* ------------------------------------------------------------------------
\* ReleaseService.Create / Update / Promote / Delete
\* ------------------------------------------------------------------------
\* a call that checks ownership and then runs one statement: the call
\* returns err0 when the check fails, else the statement's translated result
OneStatementCall(c, err0, res) ==
    IF err0 # Nil THEN Return(c, MissingID, err0)
    ELSE Return(c, res.id, translateError(res.err))

VerifyReleaseOwner_NoOwnerCheck(releaseID, userID) ==
    IF GetApplicationReleaseByID(releaseID) = {} THEN translateError(PgErrNoRows)
    ELSE Nil

\* release -> application -> project -> owner
VerifyReleaseOwner(releaseID, userID) ==
    IF GetApplicationReleaseByID(releaseID) = {} THEN translateError(PgErrNoRows)
    ELSE VerifyApplicationOwner(TheRow(GetApplicationReleaseByID(releaseID)).applicationID, userID, ErrNotProjectOwner)

Release_Create(p, userID, appID, versionCode, environment) ==
    LET c == [IdleCall EXCEPT !.op = "Release.Create", !.user = userID, !.appID = appID,
                              !.versionCode = versionCode, !.env = environment,
                              !.ownerAtCall = ChainOwnerOfApplication(appID)]
        err0 == VerifyApplicationOwner(appID, userID, ErrNotProjectOwner)
        row == ReleaseRow(nextID, CreateReleaseInput(appID, << "manual" >>, versionCode, "v",
                                                     "note", environment))
        res == Insert(releases, row, CreateApplicationRelease(releases, row))
    IN
    /\ CanStart(p)
    /\ ~ReleaseKeyLocked(p, row)
    /\ call' = [call EXCEPT ![p] =
           OneStatementCall([c EXCEPT !.conflict = (err0 = Nil /\ res.err # Nil)], err0, res)]
    /\ releases' = IF err0 = Nil THEN res.table ELSE releases
    /\ nextID' = IF err0 = Nil /\ res.err = Nil THEN nextID + 1 ELSE nextID
    /\ calls' = calls + 1
    /\ UNCHANGED << projects, applications, artifacts >>

Release_Update(p, userID, releaseID) ==
    LET c == [IdleCall EXCEPT !.op = "Release.Update", !.user = userID, !.target = releaseID,
                              !.ownerAtCall = ChainOwnerOfRelease(releaseID)]
        err0 == VerifyReleaseOwner(releaseID, userID)
        res == UpdateRelease(releases, releaseID, << "edited" >>, "edited note")
    IN
    /\ CanStart(p)
    /\ call' = [call EXCEPT ![p] = OneStatementCall(c, err0, res)]
    /\ releases' = IF err0 = Nil THEN res.table ELSE releases
    /\ calls' = calls + 1
    /\ UNCHANGED << projects, applications, artifacts, nextID >>

Release_Promote(p, userID, releaseID, env) ==
    LET c == [IdleCall EXCEPT !.op = "Release.Promote", !.user = userID, !.target = releaseID,
                              !.env = env, !.ownerAtCall = ChainOwnerOfRelease(releaseID),
                              !.fromEnv = IF GetApplicationReleaseByID(releaseID) = {} THEN ""
                                          ELSE TheRow(GetApplicationReleaseByID(releaseID)).environment]
        err0 == VerifyReleaseOwner(releaseID, userID)
        res == PromoteRelease(releases, releaseID, env)
    IN
    /\ CanStart(p)
    /\ \A r \in releases : r.id = releaseID => ~ReleaseKeyLocked(p, [r EXCEPT !.environment = env])
    /\ call' = [call EXCEPT ![p] = OneStatementCall(c, err0, res)]
    /\ releases' = IF err0 = Nil THEN res.table ELSE releases
    /\ calls' = calls + 1
    /\ UNCHANGED << projects, applications, artifacts, nextID >>

Release_Delete(p, userID, releaseID) ==
    LET c == [IdleCall EXCEPT !.op = "Release.Delete", !.user = userID, !.target = releaseID,
                              !.ownerAtCall = ChainOwnerOfRelease(releaseID)]
        err0 == VerifyReleaseOwner(releaseID, userID)
        res == SoftDelete(releases, releaseID)
    IN
    /\ CanStart(p)
    /\ call' = [call EXCEPT ![p] = OneStatementCall(c, err0, res)]
    /\ releases' = IF err0 = Nil THEN res.table ELSE releases
    /\ calls' = calls + 1
    /\ UNCHANGED << projects, applications, artifacts, nextID >>

\* ------------------------------------------------------------------------
\* ApplicationService.Create / Update / Delete
\* ------------------------------------------------------------------------
Application_Create(p, userID, projectID, packageName) ==
    LET c == [IdleCall EXCEPT !.op = "Application.Create", !.user = userID, !.projectID = projectID,
                              !.packageName = packageName,
                              !.ownerAtCall = ChainOwnerOfProject(projectID)]
        err0 == IF VerifyProjectOwner(projectID, userID) # Nil THEN VerifyProjectOwner(projectID, userID)
                ELSE IF PackageNameExists(packageName) THEN ErrPackageNameExists
                ELSE Nil
        row == ApplicationRow(nextID, << "app" >>, packageName, projectID)
        res == Insert(applications, row, CreateApplication(applications, row))
    IN
    /\ CanStart(p)
    /\ ~PackageNameLocked(p, packageName)
    /\ call' = [call EXCEPT ![p] =
           OneStatementCall([c EXCEPT !.conflict = (err0 = Nil /\ res.err # Nil)], err0, res)]
    /\ applications' = IF err0 = Nil THEN res.table ELSE applications
    /\ nextID' = IF err0 = Nil /\ res.err = Nil THEN nextID + 1 ELSE nextID
    /\ calls' = calls + 1
    /\ UNCHANGED << projects, releases, artifacts >>

Application_Update(p, userID, appID) ==
    LET c == [IdleCall EXCEPT !.op = "Application.Update", !.user = userID, !.appID = appID,
                              !.ownerAtCall = ChainOwnerOfApplication(appID)]
        err0 == VerifyApplicationOwner(appID, userID, ErrNotProjectOwner)
        res == UpdateApplication(applications, appID, << "renamed" >>, "described")
    IN
    /\ CanStart(p)
    /\ call' = [call EXCEPT ![p] = OneStatementCall(c, err0, res)]
    /\ applications' = IF err0 = Nil THEN res.table ELSE applications
    /\ calls' = calls + 1
    /\ UNCHANGED << projects, releases, artifacts, nextID >>

Application_Delete(p, userID, appID) ==
    LET c == [IdleCall EXCEPT !.op = "Application.Delete", !.user = userID, !.appID = appID,
                              !.ownerAtCall = ChainOwnerOfApplication(appID)]
        err0 == VerifyApplicationOwner(appID, userID, ErrNotProjectOwner)
        res == SoftDelete(applications, appID)
    IN
    /\ CanStart(p)
    /\ call' = [call EXCEPT ![p] = OneStatementCall(c, err0, res)]
    /\ applications' = IF err0 = Nil THEN res.table ELSE applications
    /\ calls' = calls + 1
    /\ UNCHANGED << projects, releases, artifacts, nextID >>

\* ------------------------------------------------------------------------
\* ArtifactService.CreateArtifact
\* ------------------------------------------------------------------------
Artifact_CreateArtifact(p, userID, releaseID, abi) ==
    LET c == [IdleCall EXCEPT !.op = "Artifact.CreateArtifact", !.user = userID, !.target = releaseID,
                              !.abi = abi, !.ownerAtCall = ChainOwnerOfRelease(releaseID)]
        err0 == VerifyReleaseOwner(releaseID, userID)
        row == ArtifactRow(nextID, CreateArtifactInput(releaseID, URL(TRUE, PublicHost, "/a5.apk"),
                                                        "sha-a5", 50, APKMimeType, abi))
        res == Insert(artifacts, row, CreateArtifact(artifacts, row))
    IN
    /\ CanStart(p)
    /\ call' = [call EXCEPT ![p] = OneStatementCall(c, err0, res)]
    /\ artifacts' = IF err0 = Nil THEN res.table ELSE artifacts
    /\ nextID' = IF err0 = Nil /\ res.err = Nil THEN nextID + 1 ELSE nextID
    /\ calls' = calls + 1
    /\ UNCHANGED << projects, applications, releases >>

\* ------------------------------------------------------------------------
\* ProjectService.TransferOwnership
\* ------------------------------------------------------------------------
\* users with an account (GetUserByID finds them)
RegisteredUsers == Users \cup {"u3"}

\* isolation level of the transaction TransferOwnership opens: WithTx passes
\* pgx.TxOptions{}, the database default
ReadCommitted == "read committed"
Serializable == "serializable"
TransferIsoLevel == ReadCommitted

\* the call enters WithTx at once
Transfer_Call(p, projectID, newOwnerID, requesterID) ==
    /\ CanStart(p)
    /\ call' = [call EXCEPT ![p] =
           [IdleCall EXCEPT !.op = "TransferOwnership", !.user = requesterID,
                            !.projectID = projectID, !.newOwner = newOwnerID, !.pc = "begin"]]
    /\ calls' = calls + 1
    /\ UNCHANGED << projects, applications, releases, artifacts, nextID >>

\* fn: read the project in the transaction, compare its owner with the
\* requester
Transfer_GetProject(p) ==
    LET c == call[p] IN
    /\ c.pc = "tx_get_project"
    /\ call' = [call EXCEPT ![p] =
         IF GetProjectByID(c.projectID) = {} THEN FnEnds(c, "err", ErrProjectNotFound)
         ELSE IF TheRow(GetProjectByID(c.projectID)).ownerID # c.user
              THEN FnEnds(c, "err", ErrNotProjectOwner)
         ELSE [c EXCEPT !.pc = "tx_get_user",
                        !.snapVersion = TheRow(GetProjectByID(c.projectID)).version]]
    /\ UNCHANGED << projects, applications, releases, artifacts, nextID, calls >>

\* fn: verify that the new owner exists
Transfer_GetNewOwner(p) ==
    LET c == call[p] IN
    /\ c.pc = "tx_get_user"
    /\ call' = [call EXCEPT ![p] =
         IF c.newOwner \notin RegisteredUsers THEN FnEnds(c, "err", NewValidationError("new_owner_id"))
         ELSE [c EXCEPT !.pc = "tx_transfer"]]
    /\ UNCHANGED << projects, applications, releases, artifacts, nextID, calls >>

\* the UPDATE waits while another open transaction holds an uncommitted
\* update of the row
ProjectRowLocked(p, projectID) ==
    \E q \in Procs \ {p} : \E u \in call[q].txProjects : u.id = projectID

\* fn: TransferProjectOwnership, UPDATE projects SET owner_id = $2 WHERE
\* id = $1.  Under read committed the UPDATE applies to the latest committed
\* row; under serializable it fails when the row changed after the
\* transaction's snapshot
Transfer_Update(p) ==
    LET c == call[p] IN
    /\ c.pc = "tx_transfer"
    /\ ~ProjectRowLocked(p, c.projectID)
    /\ call' = [call EXCEPT ![p] =
         IF GetProjectByID(c.projectID) = {}
         THEN FnEnds(c, "err", WrapError(CodeInternal, translateError(PgErrNoRows)))
         ELSE IF TransferIsoLevel = Serializable
                 /\ TheRow(GetProjectByID(c.projectID)).version # c.snapVersion
         THEN FnEnds(c, "err", WrapError(CodeInternal, PgSerializationFailure))
         ELSE FnEnds([c EXCEPT !.txProjects = {[id |-> c.projectID, ownerID |-> c.newOwner]}],
                     "nil", Nil)]
    /\ UNCHANGED << projects, applications, releases, artifacts, nextID, calls >>

\* ------------------------------------------------------------------------
\* memory.UserRepository: every method holds r.mu for its whole body, so a
\* call is one step whatever the interleaving of the callers
\* ------------------------------------------------------------------------
pipelineVars == << projects, applications, releases, artifacts, nextID, call, calls >>

UserRecord(id, email, username) ==
    [id |-> id, email |-> email, username |-> username, isActive |-> TRUE]

\* rec, ok := r.users[id]; !ok || !rec.user.IsActive
UserMissing(id) == IF id \in DOMAIN users THEN ~users[id].isActive ELSE TRUE

\* uuid.New(): an id no record carries
NewUserID == Cardinality(DOMAIN users) + 1

\* the result of a call on the repository
UserOp(op, id, email, username, err, ret) ==
    [op |-> op, id |-> id, email |-> email, username |-> username, err |-> err, ret |-> ret]

\* CreateTx, the loop over r.users: the iteration order of a Go map is
\* random, and the first record met that holds the email or the username
\* decides the error (the email is compared first on each record)
CreateTx_Conflicts(email, username) ==
    { ErrEmailAlreadyExists : id \in { i \in DOMAIN users : users[i].email = email } }
    \cup
    { ErrUsernameAlreadyExists :
        id \in { i \in DOMAIN users : users[i].email # email /\ users[i].username = username } }

\* UserRepository.Create = CreateTx(ctx, nil, input, passwordHash)
UserRepository_Create(email, username) ==
    LET errs == CreateTx_Conflicts(email, username)
        id == NewUserID
        rec == UserRecord(id, email, username)
    IN
    /\ \/ /\ errs # {}
          /\ \E err \in errs : userOp' = UserOp("Create", MissingID, email, username, err, NoUser)
          /\ UNCHANGED << users, userLog >>
       \/ /\ errs = {}
          /\ Cardinality(DOMAIN users) < MaxUsers
          /\ users' = [i \in DOMAIN users \cup {id} |-> IF i = id THEN rec ELSE users[i]]
          /\ userOp' = UserOp("Create", MissingID, email, username, Nil, {rec})
          /\ userLog' = [userLog EXCEPT !.created = @ \cup {id}]
    /\ UNCHANGED pipelineVars

\* UserRepository.GetByID = GetByIDTx(ctx, nil, id)
UserRepository_GetByID(id) ==
    /\ userOp' = IF UserMissing(id)
                 THEN UserOp("GetByID", id, "", "", ErrNotFound, NoUser)
                 ELSE UserOp("GetByID", id, "", "", Nil, {users[id]})
    /\ UNCHANGED << users, userLog >>
    /\ UNCHANGED pipelineVars

UserRepository_UpdateEmail_NoCheck(id, email) ==
    /\ \/ /\ UserMissing(id)
          /\ userOp' = UserOp("UpdateEmail", id, email, "", ErrNotFound, NoUser)
          /\ UNCHANGED users
       \/ /\ ~UserMissing(id)
          /\ users' = [users EXCEPT ![id].email = email]
          /\ userOp' = UserOp("UpdateEmail", id, email, "", Nil, {users'[id]})
    /\ UNCHANGED userLog
    /\ UNCHANGED pipelineVars

UserRepository_UpdateEmail(id, email) ==
    /\ \/ /\ UserMissing(id)
          /\ userOp' = UserOp("UpdateEmail", id, email, "", ErrNotFound, NoUser)
          /\ UNCHANGED users
       \/ /\ ~UserMissing(id)
          /\ \E other \in DOMAIN users : other # id /\ users[other].email = email
          /\ userOp' = UserOp("UpdateEmail", id, email, "", ErrEmailAlreadyExists, NoUser)
          /\ UNCHANGED users
       \/ /\ ~UserMissing(id)
          /\ ~\E other \in DOMAIN users : other # id /\ users[other].email = email
          /\ users' = [users EXCEPT ![id].email = email]
          /\ userOp' = UserOp("UpdateEmail", id, email, "", Nil, {users'[id]})
    /\ UNCHANGED userLog
    /\ UNCHANGED pipelineVars

UserRepository_UpdateUsername(id, username) ==
    /\ \/ /\ UserMissing(id)
          /\ userOp' = UserOp("UpdateUsername", id, "", username, ErrNotFound, NoUser)
          /\ UNCHANGED users
       \/ /\ ~UserMissing(id)
          /\ \E other \in DOMAIN users : other # id /\ users[other].username = username
          /\ userOp' = UserOp("UpdateUsername", id, "", username, ErrUsernameAlreadyExists, NoUser)
          /\ UNCHANGED users
       \/ /\ ~UserMissing(id)
          /\ ~\E other \in DOMAIN users : other # id /\ users[other].username = username
          /\ users' = [users EXCEPT ![id].username = username]
          /\ userOp' = UserOp("UpdateUsername", id, "", username, Nil, {users'[id]})
    /\ UNCHANGED userLog
    /\ UNCHANGED pipelineVars

UserRepository_SoftDelete_KeepsActive(id) ==
    /\ \/ /\ UserMissing(id)
          /\ userOp' = UserOp("SoftDelete", id, "", "", ErrNotFound, NoUser)
          /\ UNCHANGED << users, userLog >>
       \/ /\ ~UserMissing(id)
          /\ users' = users
          /\ userOp' = UserOp("SoftDelete", id, "", "", Nil, NoUser)
          /\ userLog' = [userLog EXCEPT !.softDeleted = @ \cup {id}]
    /\ UNCHANGED pipelineVars

\* UserRepository.SoftDelete = SoftDeleteTx(ctx, nil, id)
UserRepository_SoftDelete(id) ==
    /\ \/ /\ UserMissing(id)
          /\ userOp' = UserOp("SoftDelete", id, "", "", ErrNotFound, NoUser)
          /\ UNCHANGED << users, userLog >>
       \/ /\ ~UserMissing(id)
          /\ users' = [users EXCEPT ![id].isActive = FALSE]
          /\ userOp' = UserOp("SoftDelete", id, "", "", Nil, NoUser)
          /\ userLog' = [userLog EXCEPT !.softDeleted = @ \cup {id}]
    /\ UNCHANGED pipelineVars

\* ------------------------------------------------------------------------
\* Specifications
\* ------------------------------------------------------------------------
\* inputs of the calls
AppIDs == { a.id : a \in applications } \cup {MissingID}
ReleaseIDs == { r.id : r \in releases } \cup {MissingID}
VersionCodes == {5}
PackageNames == {"com.a", "com.b"}
ABIs == {"", "arm64-v8a"}

\* environments the calls are made with: the first and the last stage
CallEnvironments == Environments \ {EnvironmentStaging}

\* the steps of the calls in progress
Step(p) ==
    \/ /\ CRWA_Download(p)
       /\ UNCHANGED userVars
    \/ /\ CRWA_Parse(p)
       /\ UNCHANGED userVars
    \/ /\ APK_Download(p)
       /\ UNCHANGED userVars
    \/ /\ APK_Parse(p)
       /\ UNCHANGED userVars
    \/ /\ CFA_CheckPackage(p)
       /\ UNCHANGED userVars
    \/ /\ WithTx_Begin(p)
       /\ UNCHANGED userVars
    \/ /\ CFA_TxCreateApplication(p)
       /\ UNCHANGED userVars
    \/ /\ TxCreateRelease(p)
       /\ UNCHANGED userVars
    \/ /\ TxCreateArtifact(p)
       /\ UNCHANGED userVars
    \/ /\ WithTx_Commit(p)
       /\ UNCHANGED userVars
    \/ /\ WithTx_Rollback(p)
       /\ UNCHANGED userVars
    \/ /\ WithTx_Recover(p)
       /\ UNCHANGED userVars

\* one client: every service call, with every input, one call at a time
Client == CHOOSE p \in Procs : \A q \in Procs : p <= q

Next ==
    \/ /\ \E userID \in Users, appID \in AppIDs, artifactURL \in ArtifactURLs, env \in CallEnvironments :
            CRWA_Call(Client, userID, appID, artifactURL, env)
       /\ UNCHANGED userVars
    \/ /\ \E artifactURL \in ArtifactURLs : ExtractMetadataFromURL_Call(Client, artifactURL)
       /\ UNCHANGED userVars
    \/ /\ \E userID \in Users, projectID \in ProjectIDs, artifactURL \in ArtifactURLs :
            CFA_Call(Client, userID, projectID, artifactURL)
       /\ UNCHANGED userVars
    \/ /\ \E userID \in Users, appID \in AppIDs, versionCode \in VersionCodes, env \in CallEnvironments :
            Release_Create(Client, userID, appID, versionCode, env)
       /\ UNCHANGED userVars
    \/ /\ \E userID \in Users, releaseID \in ReleaseIDs : Release_Update(Client, userID, releaseID)
       /\ UNCHANGED userVars
    \/ /\ \E userID \in Users, releaseID \in ReleaseIDs, env \in Environments :
            Release_Promote(Client, userID, releaseID, env)
       /\ UNCHANGED userVars
    \/ /\ \E userID \in Users, releaseID \in ReleaseIDs : Release_Delete(Client, userID, releaseID)
       /\ UNCHANGED userVars
    \/ /\ \E userID \in Users, projectID \in ProjectIDs, packageName \in PackageNames :
            Application_Create(Client, userID, projectID, packageName)
       /\ UNCHANGED userVars
    \/ /\ \E userID \in Users, appID \in AppIDs : Application_Update(Client, userID, appID)
       /\ UNCHANGED userVars
    \/ /\ \E userID \in Users, appID \in AppIDs : Application_Delete(Client, userID, appID)
       /\ UNCHANGED userVars
    \/ /\ \E userID \in Users, releaseID \in ReleaseIDs, abi \in ABIs :
            Artifact_CreateArtifact(Client, userID, releaseID, abi)
       /\ UNCHANGED userVars
    \/ Step(Client)

Spec == Init /\ [][Next]_vars

\* two workers racing: concurrent CreateReleaseWithArtifactURL calls of the
\* owner for the same application and binary, interleaved at every step
RaceURLs == { URL(TRUE, PublicHost, "/a5.apk") }

NextRace ==
    \/ /\ \E p \in Procs, env \in CallEnvironments, artifactURL \in RaceURLs :
            CRWA_Call(p, "u1", 1, artifactURL, env)
       /\ UNCHANGED userVars
    \/ /\ \E p \in Procs, env \in CallEnvironments, versionCode \in VersionCodes :
            Release_Create(p, "u1", 1, versionCode, env)
       /\ UNCHANGED userVars
    \/ /\ \E p \in Procs : CRWA_Download(p)
       /\ UNCHANGED userVars
    \/ /\ \E p \in Procs : CRWA_Parse(p)
       /\ UNCHANGED userVars
    \/ /\ \E p \in Procs : WithTx_Begin(p)
       /\ UNCHANGED userVars
    \/ /\ \E p \in Procs : TxCreateRelease(p)
       /\ UNCHANGED userVars
    \/ /\ \E p \in Procs : TxCreateArtifact(p)
       /\ UNCHANGED userVars
    \/ /\ \E p \in Procs : WithTx_Commit(p)
       /\ UNCHANGED userVars
    \/ /\ \E p \in Procs : WithTx_Rollback(p)
       /\ UNCHANGED userVars
    \/ /\ \E p \in Procs : WithTx_Recover(p)
       /\ UNCHANGED userVars

SpecRace == Init /\ [][NextRace]_vars

\* two workers serving TransferOwnership requests, interleaved at every
\* statement of the transaction
NewOwnerIDs == RegisteredUsers \cup {"nobody"}
TransferProjectIDs == ProjectIDs \cup {"p0"}

NextTransfer ==
    \/ /\ \E p \in Procs, projectID \in TransferProjectIDs, newOwnerID \in NewOwnerIDs,
             requesterID \in RegisteredUsers :
            Transfer_Call(p, projectID, newOwnerID, requesterID)
       /\ UNCHANGED userVars
    \/ /\ \E p \in Procs : WithTx_Begin(p)
       /\ UNCHANGED userVars
    \/ /\ \E p \in Procs : Transfer_GetProject(p)
       /\ UNCHANGED userVars
    \/ /\ \E p \in Procs : Transfer_GetNewOwner(p)
       /\ UNCHANGED userVars
    \/ /\ \E p \in Procs : Transfer_Update(p)
       /\ UNCHANGED userVars
    \/ /\ \E p \in Procs : WithTx_Commit(p)
       /\ UNCHANGED userVars
    \/ /\ \E p \in Procs : WithTx_Rollback(p)
       /\ UNCHANGED userVars

SpecTransfer == Init /\ [][NextTransfer]_vars

\* two workers extracting metadata at once
NextExtract ==
    \/ /\ \E p \in Procs, artifactURL \in ArtifactURLs : ExtractMetadataFromURL_Call(p, artifactURL)
       /\ UNCHANGED userVars
    \/ /\ \E p \in Procs : APK_Download(p)
       /\ UNCHANGED userVars
    \/ /\ \E p \in Procs : APK_Parse(p)
       /\ UNCHANGED userVars

SpecExtract == Init /\ [][NextExtract]_vars

\* two workers running CreateReleaseWithArtifactURL whose callers may cancel
\* the request context at any point
NextCancel ==
    \/ /\ \E p \in Procs, env \in CallEnvironments, artifactURL \in RaceURLs :
            CRWA_Call(p, "u1", 1, artifactURL, env)
       /\ UNCHANGED userVars
    \/ /\ \E p \in Procs : Ctx_Cancel(p)
       /\ UNCHANGED userVars
    \/ /\ \E p \in Procs : CRWA_Download(p)
       /\ UNCHANGED userVars
    \/ /\ \E p \in Procs : CRWA_Parse(p)
       /\ UNCHANGED userVars
    \/ /\ \E p \in Procs : WithTx_Begin(p)
       /\ UNCHANGED userVars
    \/ /\ \E p \in Procs : TxCreateRelease(p)
       /\ UNCHANGED userVars
    \/ /\ \E p \in Procs : TxCreateArtifact(p)
       /\ UNCHANGED userVars
    \/ /\ \E p \in Procs : WithTx_Commit(p)
       /\ UNCHANGED userVars
    \/ /\ \E p \in Procs : WithTx_Rollback(p)
       /\ UNCHANGED userVars
    \/ /\ \E p \in Procs : WithTx_Recover(p)
       /\ UNCHANGED userVars

SpecCancel == Init /\ [][NextCancel]_vars

\* CreateReleaseWithArtifactURL by u1 while u1 transfers the project to u2
NextOwnerRace ==
    \/ /\ \E p \in Procs, artifactURL \in RaceURLs :
            CRWA_Call(p, "u1", 1, artifactURL, EnvironmentDevelopment)
       /\ UNCHANGED userVars
    \/ /\ \E p \in Procs : Transfer_Call(p, "p1", "u2", "u1")
       /\ UNCHANGED userVars
    \/ /\ \E p \in Procs : CRWA_Download(p)
       /\ UNCHANGED userVars
    \/ /\ \E p \in Procs : CRWA_Parse(p)
       /\ UNCHANGED userVars
    \/ /\ \E p \in Procs : WithTx_Begin(p)
       /\ UNCHANGED userVars
    \/ /\ \E p \in Procs : TxCreateRelease(p)
       /\ UNCHANGED userVars
    \/ /\ \E p \in Procs : TxCreateArtifact(p)
       /\ UNCHANGED userVars
    \/ /\ \E p \in Procs : WithTx_Commit(p)
       /\ UNCHANGED userVars
    \/ /\ \E p \in Procs : WithTx_Rollback(p)
       /\ UNCHANGED userVars
    \/ /\ \E p \in Procs : WithTx_Recover(p)
       /\ UNCHANGED userVars
    \/ /\ \E p \in Procs : Transfer_GetProject(p)
       /\ UNCHANGED userVars
    \/ /\ \E p \in Procs : Transfer_GetNewOwner(p)
       /\ UNCHANGED userVars
    \/ /\ \E p \in Procs : Transfer_Update(p)
       /\ UNCHANGED userVars

SpecOwnerRace == Init /\ [][NextOwnerRace]_vars

\* CreateReleaseWithArtifactURL by u1 while u1 deletes the application
NextDeleteRace ==
    \/ /\ \E p \in Procs, artifactURL \in RaceURLs :
            CRWA_Call(p, "u1", 1, artifactURL, EnvironmentDevelopment)
       /\ UNCHANGED userVars
    \/ /\ \E p \in Procs : Application_Delete(p, "u1", 1)
       /\ UNCHANGED userVars
    \/ /\ \E p \in Procs : CRWA_Download(p)
       /\ UNCHANGED userVars
    \/ /\ \E p \in Procs : CRWA_Parse(p)
       /\ UNCHANGED userVars
    \/ /\ \E p \in Procs : WithTx_Begin(p)
       /\ UNCHANGED userVars
    \/ /\ \E p \in Procs : TxCreateRelease(p)
       /\ UNCHANGED userVars
    \/ /\ \E p \in Procs : TxCreateArtifact(p)
       /\ UNCHANGED userVars
    \/ /\ \E p \in Procs : WithTx_Commit(p)
       /\ UNCHANGED userVars
    \/ /\ \E p \in Procs : WithTx_Rollback(p)
       /\ UNCHANGED userVars
    \/ /\ \E p \in Procs : WithTx_Recover(p)
       /\ UNCHANGED userVars

SpecDeleteRace == Init /\ [][NextDeleteRace]_vars

\* callers of the in-memory user repository
Emails == {"a@ex.com", "b@ex.com", "c@ex.com"}
Usernames == {"ua", "ub", "uc"}
UserIDInputs == (DOMAIN users) \cup {MissingID}

NextUsers ==
    \/ \E email \in Emails, username \in Usernames : UserRepository_Create(email, username)
    \/ \E id \in UserIDInputs : UserRepository_GetByID(id)
    \/ \E id \in UserIDInputs, email \in Emails : UserRepository_UpdateEmail(id, email)
    \/ \E id \in UserIDInputs, username \in Usernames : UserRepository_UpdateUsername(id, username)
    \/ \E id \in UserIDInputs : UserRepository_SoftDelete(id)

SpecUsers == Init /\ [][NextUsers]_vars

\* ========================================================================
\* Properties
\* ========================================================================

\* C1: in CreateReleaseWithArtifactURL the release row and its artifact row
\* are persisted atomically: at every moment the release inserted by the
\* call is visible exactly when its artifact is, and once the call has ended
\* both are visible if it returned success and neither is otherwise (failed
\* artifact insert, failed commit, panic inside the transaction)
C1_ReleaseAndArtifactAtomic ==
    \A p \in Procs :
        LET c == call[p]
            relVisible == \E r \in releases : r.id = c.releaseID
            artVisible == \E a \in artifacts : a.releaseID = c.releaseID
        IN  (c.op = "CreateReleaseWithArtifactURL" /\ c.releaseID # MissingID) =>
                /\ relVisible <=> artVisible
                /\ c.pc \in {"done", "panicked"} =>
                       (relVisible <=> (c.pc = "done" /\ c.err = Nil))

\* the artifact insert failed after the release insert, and the call ended
C1_Witness ==
    /\ call[Client].op = "CreateReleaseWithArtifactURL"
    /\ call[Client].pc = "done"
    /\ call[Client].fn = "err"
    /\ call[Client].releaseID # MissingID
    /\ call[Client].err # Nil
    /\ \A r \in releases : r.id # call[Client].releaseID

\* C2: no two stored release rows share (applicationID, versionCode,
\* environment), whatever sequence of Create, CreateReleaseWithArtifactURL,
\* CreateFromArtifact, Promote, Update and Delete ran
C2_ReleaseKeyUnique ==
    \A r1, r2 \in releases : SameReleaseKey(r1, r2) => r1 = r2

\* Promote was refused because the target environment already holds a
\* release of the application with the same versionCode
C2_Witness ==
    /\ call[Client].op = "Release.Promote"
    /\ call[Client].pc = "done"
    /\ call[Client].err = PgUniqueViolation
    /\ Cardinality(releases) >= 2

\* C3: a create (CreateReleaseWithArtifactURL or Create) whose INSERT meets
\* an existing (applicationID, versionCode, environment), after the first
\* call finished or as the loser of a race, returns an error of the
\* AlreadyExists class
C3_DuplicateIsAlreadyExists ==
    \A p \in Procs :
        (call[p].conflict /\ call[p].pc \in {"done", "panicked"}) =>
            /\ call[p].pc = "done"
            /\ GetErrorCode(call[p].err) \in {CodeAlreadyExists, CodeReleaseExists}

\* C4: two CreateReleaseWithArtifactURL calls of the owner for the same
\* application, environment and versionCode, neither hit by a storage, file
\* or connection fault: exactly one returns success, and the tables hold
\* exactly one release with that key and exactly one artifact, which belongs
\* to it; the losing call left no row
C4_ExactlyOneWins ==
    LET NoFault(c) ==
            /\ c.op = "CreateReleaseWithArtifactURL"
            /\ c.pc = "done"
            /\ c.tx # "broken"
            /\ \A i \in 1..Len(c.err) : c.err[i].type \notin {"s3", "io", "pgx"}
        winners == { p \in Procs : call[p].err = Nil }
    IN  (/\ calls = 2
         /\ \A p \in Procs : NoFault(call[p])
         /\ \A p, q \in Procs : call[p].env = call[q].env /\ call[p].appID = call[q].appID) =>
            /\ Cardinality(winners) = 1
            /\ \A w \in winners :
                 /\ releases = { r \in releases : r.id = call[w].releaseID }
                 /\ Cardinality(releases) = 1
                 /\ Cardinality(artifacts) = 1
                 /\ \A a \in artifacts : a.releaseID = call[w].releaseID
                 /\ \A r \in releases : /\ r.applicationID = call[w].appID
                                        /\ r.environment = call[w].env
                                        /\ r.versionCode = call[w].versionCode
            /\ \A p \in Procs \ winners :
                 /\ call[p].txReleases = {} /\ call[p].txArtifacts = {}
                 /\ \A r \in releases : r.id # call[p].releaseID \/ call[p].releaseID = MissingID

\* both calls have ended without a fault, one of them lost on the key
C4_Witness ==
    /\ calls = 2
    /\ \A p \in Procs : call[p].op = "CreateReleaseWithArtifactURL" /\ call[p].pc = "done"
    /\ call[1].env = call[2].env
    /\ \E p \in Procs : call[p].conflict /\ call[p].tx = "rolledback"
    /\ \E p \in Procs : call[p].err = Nil /\ call[p].tx = "committed"

\* C5: CreateReleaseWithArtifactURL on an existing application of an
\* existing project, and CreateFromArtifact on an existing project, called
\* by a user who is not the project's owner, return NotProjectOwner and
\* never NotFound
C5_NonOwnerGetsNotProjectOwner ==
    \A p \in Procs :
        LET c == call[p] IN
        (/\ c.op \in {"CreateReleaseWithArtifactURL", "CreateFromArtifact"}
         /\ c.ownerAtCall # ""
         /\ c.ownerAtCall # c.user) =>
            /\ c.pc = "done"
            /\ GetErrorCode(c.err) = CodeNotProjectOwner
            /\ ErrorsIs(c.err, ErrNotProjectOwner)
            /\ ~ErrorsIs(c.err, ErrNotFound)

\* a non-owner called CreateReleaseWithArtifactURL on an existing application
C5_Witness ==
    /\ call[Client].op = "CreateReleaseWithArtifactURL"
    /\ call[Client].user = "u2"
    /\ call[Client].ownerAtCall = "u1"
    /\ call[Client].pc = "done"

\* C6: a step of a mutating service operation (application Create,
\* CreateFromArtifact, Update, Delete; release Create,
\* CreateReleaseWithArtifactURL, Update, Promote, Delete; artifact
\* CreateArtifact) called by a user who is not the owner at the end of the
\* ownership chain leaves projects, applications, releases and artifacts
\* unchanged
C6_NonOwnerChangesNothing ==
    [][\A p \in Procs :
         (/\ call'[p] # call[p]
          /\ call'[p].op \in {"Application.Create", "CreateFromArtifact", "Application.Update",
                              "Application.Delete", "Release.Create",
                              "CreateReleaseWithArtifactURL", "Release.Update",
                              "Release.Promote", "Release.Delete", "Artifact.CreateArtifact"}
          /\ call'[p].user # call'[p].ownerAtCall) => db' = db]_vars

\* a non-owner called Promote on an existing release
C6_Witness ==
    /\ call[Client].op = "Release.Promote"
    /\ call[Client].user = "u2"
    /\ call[Client].ownerAtCall = "u1"
    /\ call[Client].target # MissingID
    /\ call[Client].pc = "done"

\* C7: when the package name parsed from the binary differs from the
\* application's packageName, CreateReleaseWithArtifactURL ends with a
\* ValidationError on artifact_url, opens no transaction and creates no row
C7_PackageMismatchIsValidationError ==
    \A p \in Procs :
        LET c == call[p] IN
        (/\ c.op = "CreateReleaseWithArtifactURL"
         /\ c.pc \in {"done", "panicked"}
         /\ c.sha256 # ""
         /\ Bucket[c.storagePath].archive
         /\ Bucket[c.storagePath].pkg # c.appPackage) =>
            /\ c.pc = "done"
            /\ IsValidationError(c.err, "artifact_url")
            /\ c.tx = "none"
            /\ c.releaseID = MissingID

\* C8: storage.Download is invoked only for a URL that belongs to this
\* system's storage; for any other URL the call that reached the URL check
\* ends with a ValidationError on artifact_url
C8_DownloadOnlyOwnStorage ==
    \A p \in Procs :
        LET c == call[p] IN
        /\ c.downloaded => BelongsToStorage(c.url)
        /\ (/\ c.op \in {"CreateReleaseWithArtifactURL", "CreateFromArtifact", "ExtractMetadataFromURL"}
            /\ c.pc \in {"done", "panicked"}
            /\ ~BelongsToStorage(c.url)
            /\ c.ownerAtCall = c.user \/ c.op = "ExtractMetadataFromURL") =>
               (c.pc = "done" /\ IsValidationError(c.err, "artifact_url"))

\* C9 as stated: when fn returned an error, WithTx returns that same error
\* untouched, whatever the rollback call did
C9_SameErrorUntouched ==
    \A p \in Procs :
        (call[p].fn = "err" /\ call[p].pc \in {"done", "panicked"}) =>
            call[p].err = call[p].fnErr

\* C9 amended: when fn returned an error the transaction is rolled back
\* (Rollback called once, Commit never), none of its writes is visible, and
\* WithTx returns that same error if the rollback succeeded, and an error
\* wrapping it, of the same kind, if the rollback failed
C9_ErrorKeptOrWrapped ==
    \A p \in Procs :
        LET c == call[p] IN
        (c.fn = "err" /\ c.pc \in {"done", "panicked"}) =>
            /\ c.pc = "done"
            /\ c.rollbacks = 1 /\ c.commits = 0
            /\ c.txApplications = {} /\ c.txReleases = {} /\ c.txArtifacts = {}
            /\ c.releaseID # MissingID => \A r \in releases : r.id # c.releaseID
            /\ c.newAppID # MissingID => \A a \in applications : a.id # c.newAppID
            /\ \/ c.tx = "rolledback" /\ c.err = c.fnErr
               \/ /\ c.tx = "broken"
                  /\ Len(c.err) = Len(c.fnErr) + 1
                  /\ Tail(c.err) = c.fnErr
                  /\ GetErrorCode(c.err) = GetErrorCode(c.fnErr)

\* fn returned an error and the rollback itself failed
C9_Witness ==
    /\ call[Client].fn = "err"
    /\ call[Client].pc = "done"
    /\ call[Client].tx = "broken"
    /\ call[Client].fnErr # Nil

C11_ThreeRowsAtomic ==
    [][\A p \in Procs :
         (call'[p] # call[p] /\ call'[p].op = "CreateFromArtifact") =>
             IF call'[p].pc = "done" /\ call'[p].err = Nil
             THEN /\ projects' = projects
                  /\ \E a \in applications' \ applications, r \in releases' \ releases,
                        f \in artifacts' \ artifacts :
                        /\ applications' = applications \cup {a}
                        /\ releases' = releases \cup {r}
                        /\ artifacts' = artifacts \cup {f}
                        /\ a.id = call'[p].newAppID /\ call'[p].ret = a.id
                        /\ a.projectID = call'[p].projectID
                        /\ a.packageName = Bucket[call'[p].storagePath].pkg
                        /\ r.applicationID = a.id
                        /\ r.environment = EnvironmentProduction
                        /\ r.versionCode = Bucket[call'[p].storagePath].versionCode
                        /\ r.versionName = Bucket[call'[p].storagePath].versionName
                        /\ f.releaseID = r.id
             ELSE db' = db]_vars

\* the artifact insert failed after the application and release inserts,
\* and the call has ended: the application is not visible
C11_Witness ==
    /\ call[Client].op = "CreateFromArtifact"
    /\ call[Client].pc = "done"
    /\ call[Client].fn = "err"
    /\ call[Client].newAppID # MissingID
    /\ call[Client].releaseID # MissingID
    /\ \A a \in applications : a.id # call[Client].newAppID

\* C12: no two distinct artifact rows of one release have the same ABI,
\* the absent (NULL) ABI included: a release has at most one artifact
\* without ABI
C12_OneArtifactPerABI ==
    \A a1, a2 \in artifacts :
        (a1.releaseID = a2.releaseID /\ a1.abi = a2.abi) => a1 = a2

\* C13: no two applications share a packageName, and a Create or
\* CreateFromArtifact whose INSERT meets a taken packageName returns an
\* error of the PackageNameExists / AlreadyExists class
C13_PackageNameUnique ==
    /\ \A a1, a2 \in applications : a1.packageName = a2.packageName => a1 = a2
    /\ \A p \in Procs :
        (/\ call[p].op \in {"Application.Create", "CreateFromArtifact"}
         /\ call[p].conflict
         /\ call[p].pc \in {"done", "panicked"}) =>
            /\ call[p].pc = "done"
            /\ GetErrorCode(call[p].err) \in {CodePackageNameExists, CodeAlreadyExists}

\* C14: a successful Promote changes only the environment of the one
\* release: its other fields, every other release, every artifact, every
\* application and project are unchanged, and no release row is added or
\* removed
C14_PromoteChangesOnlyEnvironment ==
    [][\A p \in Procs :
         (/\ call'[p] # call[p]
          /\ call'[p].op = "Release.Promote"
          /\ call'[p].err = Nil) =>
             /\ \E r \in releases :
                  /\ r.id = call'[p].target
                  /\ call'[p].ret = r.id
                  /\ releases' = (releases \ {r}) \cup {[r EXCEPT !.environment = call'[p].env]}
             /\ Cardinality(releases') = Cardinality(releases)
             /\ artifacts' = artifacts
             /\ applications' = applications
             /\ projects' = projects]_vars

\* a release was moved to another environment while another release and
\* an artifact exist
C14_Witness ==
    /\ call[Client].op = "Release.Promote"
    /\ call[Client].pc = "done"
    /\ call[Client].err = Nil
    /\ call[Client].fromEnv # call[Client].env
    /\ Cardinality(releases) >= 2
    /\ artifacts # {}

\* C15: Promote by the owner on an existing release is accepted for every
\* target environment from every current environment; it is refused only
\* when another release of the application already holds the versionCode in
\* the target environment
C15_PromoteAnyDirection ==
    [][\A p \in Procs :
         (/\ call'[p] # call[p]
          /\ call'[p].op = "Release.Promote"
          /\ call'[p].ownerAtCall = call'[p].user
          /\ \A r, o \in releases :
               (r.id = call'[p].target /\ o.id # r.id) =>
                   ~SameReleaseKey(o, [r EXCEPT !.environment = call'[p].env])) =>
             /\ call'[p].pc = "done"
             /\ call'[p].err = Nil
             /\ \E r \in releases' : r.id = call'[p].target /\ r.environment = call'[p].env]_vars

\* a release was moved from production back to development
C15_Witness ==
    /\ call[Client].op = "Release.Promote"
    /\ call[Client].pc = "done"
    /\ call[Client].err = Nil
    /\ call[Client].fromEnv = EnvironmentProduction
    /\ call[Client].env = EnvironmentDevelopment
    /\ \E r \in releases : r.id = call[Client].target /\ r.environment = EnvironmentDevelopment

\* C16: TransferOwnership runs its read of the owner, its check of the new
\* owner and its write in one serializable transaction, so that of two
\* concurrent calls by the same original owner for the same project towards
\* different new owners at most one succeeds
C16_AtMostOneTransferSucceeds ==
    (/\ calls = 2
     /\ \A p \in Procs : /\ call[p].op = "TransferOwnership"
                         /\ call[p].pc = "done"
                         /\ call[p].user = "u1"
                         /\ call[p].projectID = "p1"
                         /\ call[p].newOwner # call[p].user
     /\ \A p, q \in Procs : p # q => call[p].newOwner # call[q].newOwner) =>
        \E p \in Procs : call[p].err # Nil

\* C17: the step on which CreateReleaseWithArtifactURL returns success adds
\* exactly one release (the target application, versionCode and versionName
\* of the binary, the given note and environment, title Release
\* {versionName} ({versionCode})) and exactly one artifact (of that release,
\* the given URL, the sha256 and size of the download, the package-archive
\* file type, no ABI), and returns that release
C17_ReleaseAndArtifactFields ==
    [][\A p \in Procs :
         (/\ call'[p] # call[p]
          /\ call'[p].op = "CreateReleaseWithArtifactURL"
          /\ call'[p].pc = "done"
          /\ call'[p].err = Nil) =>
             LET c == call'[p]
                 bin == Bucket[TrimSlash(c.url.path)]
             IN  /\ applications' = applications /\ projects' = projects
                 /\ \E r \in releases' \ releases, f \in artifacts' \ artifacts :
                      /\ releases' = releases \cup {r}
                      /\ artifacts' = artifacts \cup {f}
                      /\ c.ret = r.id
                      /\ r.applicationID = c.appID
                      /\ r.versionCode = bin.versionCode
                      /\ r.versionName = bin.versionName
                      /\ r.title = << "Release", bin.versionName, bin.versionCode >>
                      /\ r.releaseNote = "note"
                      /\ r.environment = c.env
                      /\ ~r.deleted
                      /\ f.releaseID = r.id
                      /\ f.fileURL = c.url
                      /\ f.sha256 = bin.sha256
                      /\ f.fileSize = bin.size
                      /\ f.fileType = APKMimeType
                      /\ f.abi = NULL]_vars

\* CreateReleaseWithArtifactURL returned success for the development
\* environment
C17_Witness ==
    /\ call[Client].op = "CreateReleaseWithArtifactURL"
    /\ call[Client].pc = "done"
    /\ call[Client].err = Nil
    /\ call[Client].env = EnvironmentDevelopment
    /\ \E r \in releases : r.id = call[Client].ret /\ r.versionCode = 5
    /\ \E f \in artifacts : f.releaseID = call[Client].ret

\* C18: ExtractMetadataFromURL is deterministic and leaves no state behind:
\* two runs that succeed on the same artifact URL return the same
\* packageName, versionCode, versionName, sha256 and fileSize, no step of a
\* run changes a persisted row, and a finished run has closed its reader and
\* removed its temp file
C18_SameURLSameMetadata ==
    \A p, q \in Procs :
        (/\ call[p].op = "ExtractMetadataFromURL" /\ call[q].op = "ExtractMetadataFromURL"
         /\ call[p].pc = "done" /\ call[q].pc = "done"
         /\ call[p].err = Nil /\ call[q].err = Nil
         /\ call[p].url = call[q].url) =>
            /\ call[p].packageName = call[q].packageName
            /\ call[p].versionCode = call[q].versionCode
            /\ call[p].versionName = call[q].versionName
            /\ call[p].sha256 = call[q].sha256
            /\ call[p].fileSize = call[q].fileSize

C19_InvalidBinaryIsValidationError ==
    /\ \A r \in releases : r.versionCode # 0 /\ r.versionName # ""
    /\ \A p \in Procs :
        LET c == call[p] IN
        (/\ c.op \in {"CreateReleaseWithArtifactURL", "CreateFromArtifact", "ExtractMetadataFromURL"}
         /\ c.pc \in {"done", "panicked"}
         /\ c.sha256 # ""
         /\ \/ ~Bucket[c.storagePath].archive
            \/ ~Bucket[c.storagePath].hasVersionCode
            \/ ~Bucket[c.storagePath].hasVersionName) =>
            /\ c.pc = "done"
            /\ IsValidationError(c.err, "artifact_url")
            /\ c.tx = "none"
            /\ c.releaseID = MissingID /\ c.newAppID = MissingID

\* C20: CreateReleaseWithArtifactURL fails with ApplicationNotFound when the
\* application is absent or soft-deleted and with ProjectNotFound when the
\* application exists but its project is absent, in both cases before any
\* download and without any write
C20_MissingParentErrorCodes ==
    \A p \in Procs :
        LET c == call[p]
            apps == GetApplicationByID(c.appID)
        IN
        (c.op = "CreateReleaseWithArtifactURL" /\ c.pc \in {"done", "panicked"}) =>
            /\ apps = {} =>
                 /\ c.pc = "done"
                 /\ GetErrorCode(c.err) = CodeApplicationNotFound
                 /\ ~c.downloaded /\ c.tx = "none" /\ c.releaseID = MissingID
            /\ (apps # {} /\ GetProjectByID(TheRow(apps).projectID) = {}) =>
                 /\ c.pc = "done"
                 /\ GetErrorCode(c.err) = CodeProjectNotFound
                 /\ ~c.downloaded /\ c.tx = "none" /\ c.releaseID = MissingID

\* the error types of the taxonomy: *domain.AppError and
\* *domain.ValidationError
C21_TaxonomyTypes == {"AppError", "ValidationError"}

\* C21: every error returned by CreateReleaseWithArtifactURL,
\* CreateFromArtifact and ExtractMetadataFromURL is a taxonomy error
\* (NotFound, AlreadyExists-class, NotProjectOwner, ValidationError or
\* Internal): no layer of the returned error is a raw I/O, storage or
\* database driver error, nor a plain wrapper around one
C21_OnlyTaxonomyErrors ==
    \A p \in Procs :
        LET c == call[p] IN
        (/\ c.op \in {"CreateReleaseWithArtifactURL", "CreateFromArtifact", "ExtractMetadataFromURL"}
         /\ c.pc = "done"
         /\ c.err # Nil) =>
            \A i \in 1..Len(c.err) : c.err[i].type \in C21_TaxonomyTypes

\* C22: Create with an email that an existing user holds fails with
\* EMAIL_ALREADY_EXISTS and adds no user, whatever the prior state, also
\* when another existing user holds the input's username
C22_DuplicateEmailIsEmailExists ==
    [][(/\ userOp'.op = "Create"
        /\ userVars' # userVars
        /\ \E i \in DOMAIN users : users[i].email = userOp'.email) =>
           /\ GetErrorCode(userOp'.err) = CodeEmailExists
           /\ users' = users]_vars

C24_EmailsUnique ==
    \A i, j \in DOMAIN users : i # j => users[i].email # users[j].email

C25_BinaryReady(c) ==
    /\ c.sha256 # ""
    /\ c.storagePath \in DOMAIN Bucket
    /\ Bucket[c.storagePath].archive
    /\ Bucket[c.storagePath].hasVersionCode /\ Bucket[c.storagePath].hasVersionName
    /\ c.versionName = Bucket[c.storagePath].versionName
    /\ c.packageName = Bucket[c.storagePath].pkg

\* C25: in CreateReleaseWithArtifactURL and CreateFromArtifact no
\* transaction is open while the download, the hashing and temp-file write
\* or the manifest parse is in progress; BeginTx is reached only after all
\* of them succeeded, and a call that failed in one of them never began a
\* transaction
C25_TxOnlyAfterBinaryReady ==
    \A p \in Procs :
        LET c == call[p] IN
        c.op \in {"CreateReleaseWithArtifactURL", "CreateFromArtifact"} =>
            /\ c.pc \in {"download", "parse", "check_package"} => c.tx = "none"
            /\ (c.pc = "begin" \/ c.tx # "none") => C25_BinaryReady(c)
            /\ (c.pc \in {"done", "panicked"} /\ ~C25_BinaryReady(c)) =>
                 c.tx = "none" /\ c.commits = 0 /\ c.rollbacks = 0

\* a transaction is open after the binary was downloaded and parsed, the
\* read stream and the temp file still being held by the call
C25_Witness ==
    /\ call[Client].op = "CreateReleaseWithArtifactURL"
    /\ call[Client].tx = "open"
    /\ call[Client].pc = "tx_artifact"
    /\ C25_BinaryReady(call[Client])
    /\ call[Client].tmpFile = "exists"

\* C26: once a call of CreateReleaseWithArtifactURL or
\* ExtractMetadataFromURL that created a temp file has returned or panicked
\* (success, copy failure, parse failure, missing manifest field,
\* package-name mismatch or transaction failure), the temp file no longer
\* exists and the storage read stream is closed
C26_TempFileRemovedStreamClosed ==
    \A p \in Procs :
        LET c == call[p] IN
        (/\ c.op \in {"CreateReleaseWithArtifactURL", "ExtractMetadataFromURL"}
         /\ c.pc \in {"done", "panicked"}) =>
            /\ c.tmpFile # "exists"
            /\ c.reader # "open"
            /\ c.tmpFile = "removed" => c.reader = "closed"
            /\ c.sha256 # "" => c.tmpFile = "removed"

\* a call that panicked on a manifest without versionCode has removed its
\* temp file and closed its stream
C26_Witness ==
    /\ call[Client].op = "CreateReleaseWithArtifactURL"
    /\ call[Client].pc = "panicked"
    /\ call[Client].storagePath = "novc.apk"
    /\ call[Client].tmpFile = "removed"
    /\ call[Client].reader = "closed"

\* a call whose transaction failed has removed its temp file and closed its
\* stream
C26_WitnessTxFailure ==
    /\ call[Client].op = "CreateReleaseWithArtifactURL"
    /\ call[Client].pc = "done"
    /\ call[Client].tx \in {"rolledback", "broken"}
    /\ call[Client].err # Nil
    /\ call[Client].tmpFile = "removed"
    /\ call[Client].reader = "closed"

\* C27: CreateFromArtifact runs ownership check, download and parse,
\* package-name uniqueness check and transactional write in that order, each
\* step only after the earlier ones succeeded: a non-owner triggers no
\* download, an unparseable binary no uniqueness query, and a taken package
\* name no transaction
C27_StepsInOrder ==
    \A p \in Procs :
        LET c == call[p] IN
        c.op = "CreateFromArtifact" =>
            /\ (c.downloaded \/ c.pc \in {"download", "parse"}) => c.ownerAtCall = c.user
            /\ (c.uniqChecked \/ c.pc = "check_package") =>
                 (c.ownerAtCall = c.user /\ C25_BinaryReady(c))
            /\ (c.pc = "begin" \/ c.tx # "none") =>
                 (c.ownerAtCall = c.user /\ C25_BinaryReady(c) /\ c.uniqChecked /\ ~c.pkgTaken)
            /\ c.pkgTaken => (c.pc = "done" /\ c.tx = "none" /\ c.newAppID = MissingID)
            /\ (c.pc \in {"done", "panicked"} /\ c.ownerAtCall # c.user) =>
                 (~c.downloaded /\ ~c.uniqChecked /\ c.tx = "none")
            /\ (c.pc \in {"done", "panicked"} /\ ~C25_BinaryReady(c)) =>
                 (~c.uniqChecked /\ c.tx = "none")

\* a CreateFromArtifact by the owner was stopped by the uniqueness check
\* after a successful download and parse
C27_Witness ==
    /\ call[Client].op = "CreateFromArtifact"
    /\ call[Client].pc = "done"
    /\ call[Client].ownerAtCall = call[Client].user
    /\ C25_BinaryReady(call[Client])
    /\ call[Client].pkgTaken
    /\ call[Client].err = ErrPackageNameExists
    /\ call[Client].tx = "none"

C28_WitnessDownload ==
    \E p \in Procs :
        /\ call[p].op = "CreateReleaseWithArtifactURL"
        /\ call[p].ctx = "cancelled"
        /\ call[p].cancelledAt = "download"
        /\ call[p].pc = "done"
        /\ call[p].err # Nil

\* C29: CreateReleaseWithArtifactURL commits a release and artifact only if
\* the acting user owns the application's project at the moment of the
\* commit; after a TransferOwnership of the project to another user has
\* committed, the call creates no release and no artifact
C29_OwnerAtCommit ==
    [][\A p \in Procs :
         (/\ call[p].op = "CreateReleaseWithArtifactURL"
          /\ call[p].pc = "commit"
          /\ call'[p].pc = "done"
          /\ call'[p].err = Nil) =>
             ChainOwnerOfApplication(call[p].appID) = call[p].user]_vars

\* C30: CreateReleaseWithArtifactURL commits no release or artifact for an
\* application that is soft-deleted at the moment of the commit
C30_ApplicationLiveAtCommit ==
    [][\A p \in Procs :
         (/\ call[p].op = "CreateReleaseWithArtifactURL"
          /\ call[p].pc = "commit"
          /\ call'[p].pc = "done"
          /\ call'[p].err = Nil) =>
             GetApplicationByID(call[p].appID) # {}]_vars

====
